---- MODULE Spec2Model ----
(***************************************************************************)
(* Bid workflow of the FreelancerBid scripts.                              *)
(*                                                                         *)
(* Two programs place bids: the bidder agent (freelancer_agent_u.py, main) *)
(* and the search tool (freelancer_tool.py, main / place_bid).  One run of *)
(* either program is modelled as a state machine whose steps are the       *)
(* program's calls to its collaborators (marketplace SDK, language model,  *)
(* operator input).  A collaborator call either returns a value drawn from *)
(* a small set or raises one of a few exception classes; what happens to   *)
(* the exception is decided by the except clauses of the source.           *)
(***************************************************************************)
EXTENDS Integers, Sequences, FiniteSets, TLC

VARIABLES
    prog,         \* which script runs: "agent" or "tool"
    env,          \* environment: FLN_OAUTH_TOKEN / OPENAI_API_KEY set or not
    pc,           \* position of the run inside main
    args,         \* parsed command line
    user_skills,  \* agent: result of get_user_skills
    searchResult, \* result['projects'] as returned by search_projects
    projects,     \* the list find_projects returned to main
    selection,    \* tool: the project number typed by the operator
    proposal,     \* agent: BidProposal returned by generate_bid_proposal
    displayed,    \* what was printed before the confirmation prompt
    prompted,     \* number of confirmation prompts shown
    answer,       \* the operator's reply to the confirmation prompt
    fresh,        \* agent: project fetched afresh by check_project_status
    is_biddable,  \* agent: value check_project_status returned
    submitCalls,  \* arguments of every place_project_bid call of this run
    bid_result,   \* what the submit operation returned to its caller
    reported,     \* messages printed / logged by the run
    raised,       \* exception that propagated out of main, and from where
    deps,         \* agent: BidderAgentDeps the bidder's sizing tools read
    sized,        \* agent: what the sizing tools returned for deps
    oauth,        \* get_oauth_token.py: the callback server and its request
    skill_check   \* agent: arguments and result of check_skill_match

vars == <<prog, env, pc, args, user_skills, searchResult, projects, selection,
          proposal, displayed, prompted, answer, fresh, is_biddable,
          submitCalls, bid_result, reported, raised, deps, sized, oauth,
          skill_check>>

-----------------------------------------------------------------------------
(* Bounds and sample domains                                               *)

MaxProjects == 2          \* longest list search_projects returns

\* Python's None / a missing optional value: the empty sequence; a present
\* value v is <<v>>.
NoneV == <<>>
Some(v) == <<v>>
IsNone(o) == o = <<>>
Val(o) == o[1]

\* A status field that project.get(...) finds missing (get returns None).
Absent == "<absent>"

\* Values the marketplace reports in status, frontend_status, sub_status.
StatusValues == {Absent, "active", "open", "published",
                 "closed", "frozen", "cancelled"}

\* All shapes of the three status fields of a project record.
StatusRecords == [status : StatusValues, frontend_status : StatusValues,
                  sub_status : StatusValues]

\* Status shapes a freshly fetched project of a workflow run can have.
SampleStatuses ==
    { [status |-> Absent,   frontend_status |-> Absent, sub_status |-> Absent],
      [status |-> "active", frontend_status |-> Absent, sub_status |-> Absent],
      [status |-> "closed", frontend_status |-> Absent, sub_status |-> Absent],
      [status |-> Absent,   frontend_status |-> "open", sub_status |-> Absent],
      [status |-> Absent,   frontend_status |-> Absent, sub_status |-> "closed"] }

\* Status shapes of the projects a search of a workflow run returns.
ListedStatuses ==
    { [status |-> Absent,   frontend_status |-> Absent, sub_status |-> Absent],
      [status |-> "active", frontend_status |-> Absent, sub_status |-> Absent],
      [status |-> "closed", frontend_status |-> Absent, sub_status |-> Absent] }

Project(i, st) == [id |-> i, status |-> st.status,
                   frontend_status |-> st.frontend_status,
                   sub_status |-> st.sub_status]

\* Lists search_projects can return: project i of the list has id i.
SearchResults ==
    UNION { { [i \in 1..n |-> Project(i, f[i])] : f \in [1..n -> ListedStatuses] }
            : n \in 0..MaxProjects }

\* Exception classes a collaborator call can raise: the SDK's own class for
\* the call, ValueError (a response body that is not JSON) and any other
\* Exception subclass (network failure).
Exceptions == {"ProjectsNotFoundException", "JobsNotFoundException",
               "BidNotPlacedException", "UserIdNotRetrievedException",
               "ValueError", "Exception", "EOFError", "ConnectionError",
               "KeyError"}

\* What each collaborator call can raise.
Raises(call) ==
    CASE call = "search_projects"   -> {"ProjectsNotFoundException", "Exception"}
      [] call = "get_jobs"          -> {"JobsNotFoundException", "Exception"}
      [] call = "get_self_user_id"  -> {"UserIdNotRetrievedException", "ValueError"}
      [] call = "get_project_by_id" -> {"ProjectsNotFoundException", "Exception"}
      [] call = "place_project_bid" -> {"BidNotPlacedException", "ValueError",
                                        "Exception"}
      [] call = "agent.run"         -> {"Exception"}
      [] call = "input"             -> {"EOFError"}
      [] call = "requests.post"     -> {"ConnectionError"}

\* Handlers of which only `except Exception` catches anything.
CatchesBaseOnly(cls, e) == cls = "Exception"

\* `except cls` catches e: `except Exception` catches every class here.
Catches(cls, e) == cls = "Exception" \/ cls = e

-----------------------------------------------------------------------------
(* Operator input: strings as sequences of characters                      *)

UpperChars == <<"A","B","C","D","E","F","G","H","I","J","K","L","M",
                "N","O","P","Q","R","S","T","U","V","W","X","Y","Z">>
LowerChars == <<"a","b","c","d","e","f","g","h","i","j","k","l","m",
                "n","o","p","q","r","s","t","u","v","w","x","y","z">>

LowerChar(c) ==
    IF \E i \in 1..Len(UpperChars) : UpperChars[i] = c
    THEN LowerChars[CHOOSE i \in 1..Len(UpperChars) : UpperChars[i] = c]
    ELSE c

\* str.lower()
Lower(s) == [i \in 1..Len(s) |-> LowerChar(s[i])]

Str_y == <<"y">>
Str_CONFIRM == <<"C","O","N","F","I","R","M">>

\* Replies the operator can type at a confirmation prompt.
Answers == { <<"y">>, <<"Y">>, <<"n">>, <<>>, <<"y","e","s">>,
             <<"C","O","N","F","I","R","M">>,
             <<"c","o","n","f","i","r","m">>,
             <<"C","O","N","F","I","R","M","E","D">> }

-----------------------------------------------------------------------------
(* Eligibility checks                                                      *)

\* Python truthiness of a status field: None (missing) is false, a status
\* string of the marketplace is true.
Truthy(v) == v # Absent

active_states == {"active", "open", "published"}

\* A listing filter that looks at status and frontend_status only.
ListingKeepsWithoutSubStatus(project) ==
    \/ Truthy(project.status) /\ project.status \in active_states
    \/ Truthy(project.frontend_status) /\ project.frontend_status \in active_states
    \/ ~Truthy(project.status) /\ ~Truthy(project.frontend_status)

\* The condition under which find_projects appends a project to
\* biddable_projects.
ListingKeeps(project) ==
    \/ Truthy(project.status) /\ project.status \in active_states
    \/ Truthy(project.frontend_status) /\ project.frontend_status \in active_states
    \/ ~Truthy(project.status) /\ ~Truthy(project.frontend_status)
                               /\ ~Truthy(project.sub_status)

\* A find_projects that returns every project of the search result.
EveryFoundProject(found) == found

\* biddable_projects built by the loop of find_projects.
biddable_projects(found) == SelectSeq(found, ListingKeeps)

\* The condition under which check_project_status returns True for the
\* project it fetched.
StatusCheckPasses(project) ==
    \/ Truthy(project.status) /\ project.status \in active_states
    \/ Truthy(project.frontend_status) /\ project.frontend_status \in active_states
    \/ ~Truthy(project.status) /\ ~Truthy(project.frontend_status)

-----------------------------------------------------------------------------
(* Messages and common steps                                               *)

Msg(tag, detail) == <<tag, detail>>
Report(tag) == reported' = reported \cup {Msg(tag, "")}
ReportError(tag, e) == reported' = reported \cup {Msg(tag, e)}

\* main returns normally.
Return == pc' = "done" /\ UNCHANGED raised
\* An exception raised by the step at pc leaves main.
Propagate(e) == pc' = "raised" /\ raised' = Some([exc |-> e, at |-> pc])
Goto(l) == pc' = l /\ UNCHANGED raised

Terminal == pc \in {"done", "exited", "raised"}

\* Status the process ends with: sys.exit(1) in create_session, an
\* exception that leaves asyncio.run(main()), or a normal return of main.
ExitStatus == IF pc \in {"exited", "raised"} THEN Some(1)
              ELSE IF pc = "done" THEN Some(0)
              ELSE NoneV

ArgIndices == -1 .. (MaxProjects + 1)
OptIndices == {NoneV} \cup {Some(i) : i \in ArgIndices}

\* `if args.bid:` and `if ... or args.analyze:` -- None and 0 are false.
TruthyInt(o) == ~IsNone(o) /\ Val(o) # 0

\* Neither sizing tool has been called.
NotSized == [amount |-> NoneV, period |-> NoneV]

Init ==
    /\ prog \in {"agent", "tool"}
    /\ env \in [FLN_OAUTH_TOKEN : BOOLEAN, OPENAI_API_KEY : BOOLEAN]
    /\ pc = "parse_args"
    /\ args = [bid |-> NoneV, simulate_bid |-> FALSE,
               list_jobs |-> FALSE, place_bid |-> FALSE]
    /\ user_skills = <<>>
    /\ searchResult = <<>>
    /\ projects = <<>>
    /\ selection = NoneV
    /\ proposal = NoneV
    /\ displayed = NoneV
    /\ prompted = 0
    /\ answer = NoneV
    /\ fresh = NoneV
    /\ is_biddable = NoneV
    /\ submitCalls = <<>>
    /\ bid_result = NoneV
    /\ reported = {}
    /\ raised = NoneV
    /\ deps = NoneV
    /\ sized = NotSized
    /\ oauth = NoneV
    /\ skill_check = NoneV

-----------------------------------------------------------------------------
(* Sizing tools of the bidder agent: get_typical_bid_amount and            *)
(* estimate_completion_time, applied to every sample BidderAgentDeps       *)

MaxHistory == 2           \* longest bid_history

\* A Python dict is a function on the keys it holds; a value that can be
\* None is NoneV or Some(v).
EmptyDict == <<>>
\* dict.get(key, default)
Get(dict, key, default) == IF key \in DOMAIN dict THEN dict[key] ELSE default

\* Amounts of money inside the computation are exact fractions <<n, d>>;
\* an amount a tool returns is counted in hundredths.
Frac(n, d) == <<n, d>>
Plus(a, b) == Frac(a[1] * b[2] + b[1] * a[2], a[2] * b[2])
Half(a) == Frac(a[1], 2 * a[2])
Hundredths(n) == 100 * n

\* round(x, 2), in hundredths: the nearest hundredth, a half going to the
\* even neighbour.
Round2(a) ==
    LET q == (100 * a[1]) \div a[2]
        r == (100 * a[1]) % a[2]
    IN  IF 2 * r > a[2] \/ (2 * r = a[2] /\ q % 2 = 1) THEN q + 1 ELSE q

RECURSIVE Sum(_)
Sum(seq) == IF seq = <<>> THEN 0 ELSE Head(seq) + Sum(Tail(seq))

\* Sample budgets: the key missing, None, or a number.
MinimumFields == {EmptyDict, [minimum |-> NoneV], [minimum |-> Some(0)],
                  [minimum |-> Some(100)]}
MaximumFields == {EmptyDict, [maximum |-> NoneV], [maximum |-> Some(200)],
                  [maximum |-> Some(205)]}
\* The dict holding the keys of both.
Merge(a, b) == [k \in DOMAIN a \cup DOMAIN b |->
                   IF k \in DOMAIN a THEN a[k] ELSE b[k]]
Budgets == {Merge(a, b) : a \in MinimumFields, b \in MaximumFields}

\* Words of the sample descriptions.
URGENT == <<"U","R","G","E","N","T">>
Asap == <<"A","s","a","p">>
immediately == <<"i","m","m","e","d","i","a","t","e","l","y">>
Complex == <<"C","o","m","p","l","e","x">>
EXTENSIVE == <<"E","X","T","E","N","S","I","V","E">>
comprehensive == <<"c","o","m","p","r","e","h","e","n","s","i","v","e">>
plain == <<"p","l","a","i","n"," ","w","e","b"," ","s","h","o","p">>
insurgent == <<"I","n","s","u","r","g","e","n","t">>
urgen_t == <<"u","r","g","e","n"," ","t">>

\* Sample project descriptions.
UrgencySamples == {URGENT, Asap, immediately}
ComplexitySamples == {Complex, EXTENSIVE, comprehensive}
OtherSamples == {<<>>, plain, insurgent, urgen_t}
Space == <<" ">>
Descriptions4Sizing ==
    UrgencySamples \cup ComplexitySamples \cup OtherSamples
    \cup {u \o Space \o c : u \in UrgencySamples, c \in ComplexitySamples}
    \cup {c \o Space \o u : u \in UrgencySamples, c \in ComplexitySamples}

\* Sample projects as the sizing tools read them: budget and description,
\* each present or not.
SizingProjects ==
    {Merge(b, d) : b \in {EmptyDict} \cup {[budget |-> x] : x \in Budgets},
                   d \in {EmptyDict} \cup
                         {[description |-> x] : x \in Descriptions4Sizing}}

\* Sample bid_history entries: without an amount, with amount 0, with a
\* positive amount.
HistoryEntries == {EmptyDict, [amount |-> Some(0)], [amount |-> Some(120)],
                   [amount |-> Some(130)]}
RECURSIVE SeqsUpTo(_, _)
SeqsUpTo(S, n) ==
    IF n = 0 THEN {<<>>}
    ELSE LET shorter == SeqsUpTo(S, n - 1)
         IN  shorter \cup {Append(h, e) : h \in shorter, e \in S}
BidHistories == {NoneV} \cup {Some(h) : h \in SeqsUpTo(HistoryEntries, MaxHistory)}

Overrides == {NoneV, Some(0), Some(250)}

\* BidderAgentDeps, the fields the sizing tools read.
BidderAgentDeps ==
    [project : SizingProjects, bid_history : BidHistories,
     typical_bid_amount : Overrides]

DEFAULT_AMOUNT == 500

\* A base amount that is the low end of the budget.
BaseAmountLowEnd(project) ==
    LET budget == Get(project, "budget", EmptyDict)
        min_budget == Get(budget, "minimum", NoneV)
        max_budget == Get(budget, "maximum", min_budget)
    IN  IF ~IsNone(min_budget) /\ ~IsNone(max_budget)
        THEN Frac(Val(min_budget), 1)
        ELSE Frac(DEFAULT_AMOUNT, 1)

\* A base amount whose max_budget is budget.get('maximum').
BaseAmountNoMaxDefault(project) ==
    LET budget == Get(project, "budget", EmptyDict)
        min_budget == Get(budget, "minimum", NoneV)
        max_budget == Get(budget, "maximum", NoneV)
    IN  IF ~IsNone(min_budget) /\ ~IsNone(max_budget)
        THEN Frac(Val(min_budget) + Val(max_budget), 2)
        ELSE Frac(DEFAULT_AMOUNT, 1)

\* typical_amount before the history is looked at: the middle of the
\* budget, max_budget defaulting to min_budget when the key is missing,
\* or the fallback.
BaseAmount(project) ==
    LET budget == Get(project, "budget", EmptyDict)
        min_budget == Get(budget, "minimum", NoneV)
        max_budget == Get(budget, "maximum", min_budget)
    IN  IF ~IsNone(min_budget) /\ ~IsNone(max_budget)
        THEN Frac(Val(min_budget) + Val(max_budget), 2)
        ELSE Frac(DEFAULT_AMOUNT, 1)

\* past_bids: [bid.get('amount', 0) for bid in bid_history
\*             if bid.get('amount')] -- None and 0 are false.
RECURSIVE past_bids(_)
past_bids(bid_history) ==
    IF bid_history = <<>> THEN <<>>
    ELSE LET bid == Head(bid_history)
             rest == past_bids(Tail(bid_history))
         IN  IF TruthyInt(Get(bid, "amount", NoneV))
             THEN <<Val(Get(bid, "amount", Some(0)))>> \o rest
             ELSE rest

\* get_typical_bid_amount, the returned amount in hundredths.
get_typical_bid_amount(d) ==
    IF TruthyInt(d.typical_bid_amount)
    THEN Hundredths(Val(d.typical_bid_amount))
    ELSE LET base == BaseAmount(d.project)
             past == IF ~IsNone(d.bid_history) /\ Val(d.bid_history) # <<>>
                     THEN past_bids(Val(d.bid_history))
                     ELSE <<>>
             avg_past_bid == Frac(Sum(past), Len(past))
             typical_amount == IF past # <<>>
                               THEN Half(Plus(base, avg_past_bid))
                               ELSE base
         IN  Round2(typical_amount)

\* `word in description.lower()`: substring test.
Contains(text, word) ==
    \E i \in 1 .. (Len(text) - Len(word) + 1) :
        SubSeq(text, i, i + Len(word) - 1) = word

Str_urgent == <<"u","r","g","e","n","t">>
Str_asap == <<"a","s","a","p">>
Str_immediately == <<"i","m","m","e","d","i","a","t","e","l","y">>
Str_complex == <<"c","o","m","p","l","e","x">>
Str_extensive == <<"e","x","t","e","n","s","i","v","e">>
Str_comprehensive == <<"c","o","m","p","r","e","h","e","n","s","i","v","e">>

urgent_words == {Str_urgent, Str_asap, Str_immediately}
complex_words == {Str_complex, Str_extensive, Str_comprehensive}

\* An estimate that looks for the complexity words first.
estimate_completion_time_complex_first(d) ==
    LET description == Get(d.project, "description", <<>>)
    IN  IF \E word \in complex_words : Contains(Lower(description), word)
        THEN 14
        ELSE IF \E word \in urgent_words : Contains(Lower(description), word)
        THEN 3
        ELSE 7

\* estimate_completion_time
estimate_completion_time(d) ==
    LET description == Get(d.project, "description", <<>>)
    IN  IF \E word \in urgent_words : Contains(Lower(description), word)
        THEN 3
        ELSE IF \E word \in complex_words : Contains(Lower(description), word)
        THEN 14
        ELSE 7

InitSizing ==
    /\ prog = "agent"
    /\ env = [FLN_OAUTH_TOKEN |-> TRUE, OPENAI_API_KEY |-> TRUE]
    /\ pc = "sizing"
    /\ args = [bid |-> NoneV, simulate_bid |-> FALSE,
               list_jobs |-> FALSE, place_bid |-> FALSE]
    /\ user_skills = <<>>
    /\ searchResult = <<>>
    /\ projects = <<>>
    /\ selection = NoneV
    /\ proposal = NoneV
    /\ displayed = NoneV
    /\ prompted = 0
    /\ answer = NoneV
    /\ fresh = NoneV
    /\ is_biddable = NoneV
    /\ submitCalls = <<>>
    /\ bid_result = NoneV
    /\ reported = {}
    /\ raised = NoneV
    /\ deps \in BidderAgentDeps
    /\ sized = NotSized
    /\ oauth = NoneV
    /\ skill_check = NoneV

\* The language model calls the tool get_typical_bid_amount.
Sizing_get_typical_bid_amount ==
    /\ pc = "sizing" /\ IsNone(sized.amount)
    /\ sized' = [sized EXCEPT !.amount = Some(get_typical_bid_amount(deps))]
    /\ UNCHANGED <<prog, env, oauth, skill_check, deps, pc, args, user_skills, searchResult,
                   projects, selection, proposal, displayed, prompted, answer,
                   fresh, is_biddable, submitCalls, bid_result, reported,
                   raised>>

\* The language model calls the tool estimate_completion_time.
Sizing_estimate_completion_time ==
    /\ pc = "sizing" /\ IsNone(sized.period)
    /\ sized' = [sized EXCEPT !.period = Some(estimate_completion_time(deps))]
    /\ UNCHANGED <<prog, env, oauth, skill_check, deps, pc, args, user_skills, searchResult,
                   projects, selection, proposal, displayed, prompted, answer,
                   fresh, is_biddable, submitCalls, bid_result, reported,
                   raised>>

NextSizing == Sizing_get_typical_bid_amount \/ Sizing_estimate_completion_time

SpecSizing == InitSizing /\ [][NextSizing]_vars

-----------------------------------------------------------------------------
(* Bidder agent: freelancer_agent_u.py                                     *)

Agent_parse_args ==
    /\ prog = "agent" /\ pc = "parse_args"
    /\ \E b \in OptIndices, sim \in BOOLEAN :
          args' = [args EXCEPT !.bid = b, !.simulate_bid = sim]
    /\ Goto("create_session")
    /\ UNCHANGED <<prog, env, oauth, skill_check, deps, sized, user_skills, searchResult, projects, selection,
                   proposal, displayed, prompted, answer, fresh, is_biddable,
                   submitCalls, bid_result, reported>>

\* A create_session that builds the Session without looking at the token.
Agent_create_session_unchecked ==
    /\ prog = "agent" /\ pc = "create_session"
    /\ Goto("check_connection")
    /\ UNCHANGED <<prog, env, oauth, skill_check, deps, sized, args, user_skills, searchResult,
                   projects, selection, proposal, displayed, prompted, answer,
                   fresh, is_biddable, submitCalls, bid_result, reported>>

Agent_create_session ==
    /\ prog = "agent" /\ pc = "create_session"
    /\ IF ~env.FLN_OAUTH_TOKEN
       THEN /\ Report("FLN_OAUTH_TOKEN not found")
            /\ pc' = "exited" /\ UNCHANGED raised
       ELSE /\ Goto("check_connection") /\ UNCHANGED reported
    /\ UNCHANGED <<prog, env, oauth, skill_check, deps, sized, args, user_skills, searchResult, projects,
                   selection, proposal, displayed, prompted, answer, fresh,
                   is_biddable, submitCalls, bid_result>>

\* get_self_user_id and get_self inside try / except Exception; main
\* returns when check_connection returns None.
Agent_check_connection ==
    /\ prog = "agent" /\ pc = "check_connection"
    /\ \/ Goto("get_user_skills") /\ UNCHANGED reported
       \/ \E e \in Raises("get_self_user_id") :
             /\ Catches("Exception", e)
             /\ ReportError("Error connecting to Freelancer API", e)
             /\ Return
    /\ UNCHANGED <<prog, env, oauth, skill_check, deps, sized, args, user_skills, searchResult, projects,
                   selection, proposal, displayed, prompted, answer, fresh,
                   is_biddable, submitCalls, bid_result>>

ExampleSkills == <<"Python", "JavaScript", "Web Development",
                   "API Integration", "Data Analysis">>

Agent_get_user_skills ==
    /\ prog = "agent" /\ pc = "get_user_skills"
    /\ \/ user_skills' = ExampleSkills /\ UNCHANGED reported
       \/ \E e \in Raises("get_self_user_id") :
             /\ Catches("Exception", e)
             /\ ReportError("Error fetching user skills", e)
             /\ user_skills' = <<>>
    /\ Goto("list_job_categories")
    /\ UNCHANGED <<prog, env, oauth, skill_check, deps, sized, args, searchResult, projects, selection,
                   proposal, displayed, prompted, answer, fresh, is_biddable,
                   submitCalls, bid_result>>

\* get_jobs inside try / except JobsNotFoundException.
Agent_list_job_categories ==
    /\ prog = "agent" /\ pc = "list_job_categories"
    /\ \/ Goto("find_projects") /\ UNCHANGED reported
       \/ \E e \in Raises("get_jobs") :
             IF Catches("JobsNotFoundException", e)
             THEN /\ ReportError("Error retrieving job categories", e)
                  /\ Goto("find_projects")
             ELSE /\ Propagate(e) /\ UNCHANGED reported
    /\ UNCHANGED <<prog, env, oauth, skill_check, deps, sized, args, user_skills, searchResult, projects,
                   selection, proposal, displayed, prompted, answer, fresh,
                   is_biddable, submitCalls, bid_result>>

\* search_projects inside try / except ProjectsNotFoundException, then the
\* biddable filter; main returns when the list it gets is empty.  The
\* per-project printing and save_project_details (which catches its own
\* exceptions and writes files only) change nothing of the run's state.
Agent_find_projects ==
    /\ prog = "agent" /\ pc = "find_projects"
    /\ \/ \E found \in SearchResults :
             /\ searchResult' = found
             /\ IF found = <<>>
                THEN /\ Report("No projects found matching the criteria.")
                     /\ projects' = <<>>
                     /\ Return
                ELSE IF biddable_projects(found) = <<>>
                THEN /\ Report("No biddable projects found matching the criteria.")
                     /\ projects' = <<>>
                     /\ Return
                ELSE /\ Report("Found biddable projects")
                     /\ projects' = biddable_projects(found)
                     /\ Goto("analyze")
       \/ \E e \in Raises("search_projects") :
             /\ UNCHANGED <<searchResult, projects>>
             /\ IF Catches("ProjectsNotFoundException", e)
                THEN /\ ReportError("Error finding projects", e)
                     /\ Return
                ELSE /\ Propagate(e) /\ UNCHANGED reported
    /\ UNCHANGED <<prog, env, oauth, skill_check, deps, sized, args, user_skills, selection, proposal,
                   displayed, prompted, answer, fresh, is_biddable,
                   submitCalls, bid_result>>

\* `if args.analyze_all or args.analyze:` analyze_projects_with_ai and
\* display_ai_analysis.  args.analyze_all and args.analyze are read only
\* here, so they are drawn here instead of being kept in args; what the
\* analysis prints is not recorded.
Agent_analyze ==
    /\ prog = "agent" /\ pc = "analyze"
    /\ \E analyze_all \in BOOLEAN, analyze \in OptIndices :
          IF ~(analyze_all \/ TruthyInt(analyze))
          THEN Goto("bid") /\ UNCHANGED reported
          ELSE IF ~env.OPENAI_API_KEY
          THEN Goto("bid") /\ UNCHANGED reported
          ELSE IF ~analyze_all /\ (IsNone(analyze) \/ Val(analyze) < 1
                                   \/ Val(analyze) > Len(projects))
          THEN Goto("bid") /\ UNCHANGED reported
          ELSE \/ Goto("bid") /\ UNCHANGED reported
               \/ \E e \in Raises("agent.run") :
                     Propagate(e) /\ UNCHANGED reported
    /\ UNCHANGED <<prog, env, oauth, skill_check, deps, sized, args, user_skills, searchResult, projects,
                   selection, proposal, displayed, prompted, answer, fresh,
                   is_biddable, submitCalls, bid_result>>

\* `if args.bid:` and the range check on the index.
Agent_select_bid ==
    /\ prog = "agent" /\ pc = "bid"
    /\ IF ~TruthyInt(args.bid)
       THEN Return /\ UNCHANGED reported
       ELSE IF Val(args.bid) < 1 \/ Val(args.bid) > Len(projects)
       THEN Report("Invalid project index.") /\ Return
       ELSE Goto("generate_bid_proposal") /\ UNCHANGED reported
    /\ UNCHANGED <<prog, env, oauth, skill_check, deps, sized, args, user_skills, searchResult, projects,
                   selection, proposal, displayed, prompted, answer, fresh,
                   is_biddable, submitCalls, bid_result>>

\* Values the language model can put in a BidProposal.  pydantic validates
\* the result type: milestone_percentage is an integer in 0..100 (ge=0,
\* le=100); the other fields are only typed.
\* The model is given the selected project; the project_id of its answer
\* is that project's id or another one.
ProposalIds(project) == {project.id, project.id + 1}
BidAmounts == {0, 500}
Periods == {0, 7}
Descriptions == {"", "proposal text"}
MilestonePercentages == {0, 100}

\* The answer that names the given project, with the amount and the period
\* the sizing tools give for a project without budget or keywords.
PlausibleProposal(project) ==
    [project_id |-> project.id, bid_amount |-> 500, period |-> 7,
     description |-> "proposal text", milestone_percentage |-> 100]

\* Sample answers: the plausible one and those that differ from it in one
\* field.
BidProposals(project) ==
    {p \in [project_id : ProposalIds(project), bid_amount : BidAmounts,
            period : Periods, description : Descriptions,
            milestone_percentage : MilestonePercentages] :
        Cardinality({f \in DOMAIN p : p[f] # PlausibleProposal(project)[f]}) <= 1}

\* project = projects[args.bid - 1]
SelectedProject == projects[Val(args.bid)]

\* generate_bid_proposal: returns None without OPENAI_API_KEY, otherwise
\* the result of bidder_agent.run, which is not inside any try.  main
\* goes on only `if proposal:`.
\* deps = BidderAgentDeps(project=project, session=session,
\*                        user_profile=user_profile, user_skills=user_skills):
\* bid_history and typical_bid_amount keep their default None.
DepsOf(project) ==
    [project |-> project, bid_history |-> NoneV, typical_bid_amount |-> NoneV]

\* What the two sizing tools have returned during bidder_agent.run: the
\* language model decides whether it calls each of them.
ToolResults(d) ==
    [amount : {NoneV, Some(get_typical_bid_amount(d))},
     period : {NoneV, Some(estimate_completion_time(d))}]

Agent_generate_bid_proposal ==
    /\ prog = "agent" /\ pc = "generate_bid_proposal"
    /\ IF ~env.OPENAI_API_KEY
       THEN /\ Report("OPENAI_API_KEY environment variable not set.")
            /\ proposal' = NoneV
            /\ UNCHANGED <<deps, sized>>
            /\ Return
       ELSE /\ deps' = DepsOf(SelectedProject)
            /\ sized' \in ToolResults(DepsOf(SelectedProject))
            /\ \/ \E p \in BidProposals(SelectedProject) :
                     /\ proposal' = Some(p)
                     /\ Report("Generating bid proposal with AI...")
                     /\ Goto("display_bid_proposal")
               \/ \E e \in Raises("agent.run") :
                     /\ Propagate(e)
                     /\ Report("Generating bid proposal with AI...")
                     /\ UNCHANGED proposal
    /\ UNCHANGED <<prog, env, oauth, skill_check, args, user_skills, searchResult, projects,
                   selection, displayed, prompted, answer, fresh, is_biddable,
                   submitCalls, bid_result>>

Agent_display_bid_proposal ==
    /\ prog = "agent" /\ pc = "display_bid_proposal"
    /\ displayed' = proposal
    /\ Goto("prompt")
    /\ UNCHANGED <<prog, env, oauth, skill_check, deps, sized, args, user_skills, searchResult, projects,
                   selection, proposal, prompted, answer, fresh, is_biddable,
                   submitCalls, bid_result, reported>>

\* A prompt that takes every reply for a yes.
AnyReplyAffirmative(a) == TRUE

\* input(...).lower() == 'y'
AgentAffirmative(a) == Lower(a) = Str_y

\* The confirmation prompt of main: submit_bid is called only in the
\* affirmative branch; otherwise main ends.
Agent_prompt ==
    /\ prog = "agent" /\ pc = "prompt"
    /\ prompted' = prompted + 1
    /\ \/ \E a \in Answers :
             /\ answer' = Some(a)
             /\ IF AgentAffirmative(a)
                THEN Goto("check_project_status")
                ELSE Return
       \/ \E e \in Raises("input") : Propagate(e) /\ UNCHANGED answer
    /\ UNCHANGED <<prog, env, oauth, skill_check, deps, sized, args, user_skills, searchResult, projects,
                   selection, proposal, displayed, fresh, is_biddable,
                   submitCalls, bid_result, reported>>

\* What get_project_by_id can return for project_id: the project with its
\* present status fields, or nothing.
FreshProjects(project_id) ==
    {NoneV} \cup {Some(Project(project_id, st)) : st \in SampleStatuses}

\* A check that takes a project that was not found for biddable.
check_project_status_missing_ok(fetched) ==
    IF IsNone(fetched) THEN TRUE ELSE StatusCheckPasses(Val(fetched))

\* The return value of check_project_status for what was fetched.
check_project_status(fetched) ==
    IF IsNone(fetched) THEN FALSE ELSE StatusCheckPasses(Val(fetched))

\* A submit_bid that goes on whatever check_project_status returned.
SubmitBidIgnoringStatus(ok, msgs) ==
    /\ reported' = reported \cup msgs
    /\ Goto("get_self_user_id")

\* submit_bid after the check: `if not is_biddable:` print and return None
\* (main then calls display_bid_result); msgs is what the check logged.
SubmitBidAfterCheck(ok, msgs) ==
    IF ok
    THEN /\ reported' = reported \cup msgs
         /\ Goto("get_self_user_id")
    ELSE /\ reported' = reported \cup msgs \cup
                {Msg("This project is not available for bidding.", "")}
         /\ Goto("display_bid_result")

\* First part of submit_bid: check_project_status(session,
\* proposal.project_id).  An exception of the fetch is caught inside
\* check_project_status, which then returns False.
Agent_check_project_status ==
    /\ prog = "agent" /\ pc = "check_project_status"
    /\ \/ \E f \in FreshProjects(Val(proposal).project_id) :
             /\ fresh' = f
             /\ is_biddable' = Some(check_project_status(f))
             /\ SubmitBidAfterCheck(check_project_status(f), {})
       \/ \E e \in Raises("get_project_by_id") :
             /\ Catches("Exception", e)
             /\ fresh' = NoneV
             /\ is_biddable' = Some(FALSE)
             /\ SubmitBidAfterCheck(FALSE,
                    {Msg("Error checking project status", e)})
    /\ UNCHANGED <<prog, env, oauth, skill_check, deps, sized, args, user_skills, searchResult, projects,
                   selection, proposal, displayed, prompted, answer,
                   submitCalls, bid_result>>

\* A handler that places the bid again after a failure.
SubmitBidRetrying(e) ==
    /\ ReportError("Error submitting bid", e)
    /\ IF Len(submitCalls) < 2 THEN Goto("place_project_bid")
                               ELSE Goto("display_bid_result")

\* `except Exception` of submit_bid: log, print, return None.
SubmitBidExcept(e) ==
    /\ ReportError("Error submitting bid", e)
    /\ Goto("display_bid_result")

\* submit_bid, get_self_user_id inside try / except Exception.
Agent_get_self_user_id ==
    /\ prog = "agent" /\ pc = "get_self_user_id"
    /\ \/ Goto("place_project_bid") /\ UNCHANGED reported
       \/ \E e \in Raises("get_self_user_id") :
             /\ Catches("Exception", e)
             /\ SubmitBidExcept(e)
    /\ UNCHANGED <<prog, env, oauth, skill_check, deps, sized, args, user_skills, searchResult, projects,
                   selection, proposal, displayed, prompted, answer, fresh,
                   is_biddable, submitCalls, bid_result>>

\* A submit_bid that bids the default period instead of the proposal's.
AgentBidDataDefaultPeriod(p) ==
    [project_id |-> p.project_id, amount |-> p.bid_amount,
     period |-> 7, description |-> p.description,
     milestone_percentage |-> p.milestone_percentage]

\* Keyword arguments of the place_project_bid call of submit_bid.
AgentBidData(p) ==
    [project_id |-> p.project_id, amount |-> p.bid_amount,
     period |-> p.period, description |-> p.description,
     milestone_percentage |-> p.milestone_percentage]

\* What the marketplace answers to an accepted bid.
BidPlaced(data) == [id |-> data.project_id, amount |-> data.amount]

\* submit_bid, place_project_bid inside try / except Exception; the
\* result is returned, an exception is logged and None returned.
Agent_place_project_bid ==
    /\ prog = "agent" /\ pc = "place_project_bid"
    /\ submitCalls' = Append(submitCalls, AgentBidData(Val(proposal)))
    /\ \/ /\ bid_result' = Some(BidPlaced(AgentBidData(Val(proposal))))
          /\ UNCHANGED reported
          /\ Goto("display_bid_result")
       \/ \E e \in Raises("place_project_bid") :
             /\ Catches("Exception", e)
             /\ SubmitBidExcept(e)
             /\ UNCHANGED bid_result
    /\ UNCHANGED <<prog, env, oauth, skill_check, deps, sized, args, user_skills, searchResult, projects,
                   selection, proposal, displayed, prompted, answer, fresh,
                   is_biddable>>

\* display_bid_result prints nothing for None.
Agent_display_bid_result ==
    /\ prog = "agent" /\ pc = "display_bid_result"
    /\ IF IsNone(bid_result)
       THEN UNCHANGED reported
       ELSE Report("BID SUBMISSION RESULT")
    /\ Return
    /\ UNCHANGED <<prog, env, oauth, skill_check, deps, sized, args, user_skills, searchResult, projects,
                   selection, proposal, displayed, prompted, answer, fresh,
                   is_biddable, submitCalls, bid_result>>

-----------------------------------------------------------------------------
(* Search tool: freelancer_tool.py                                         *)

BID_AMOUNT == 100
BID_PERIOD == 7
BID_DESCRIPTION == "Hello! I'm interested in working on your project."

Tool_parse_args ==
    /\ prog = "tool" /\ pc = "parse_args"
    /\ \E lj \in BOOLEAN, pb \in BOOLEAN :
          args' = [args EXCEPT !.list_jobs = lj, !.place_bid = pb]
    /\ Goto("create_session")
    /\ UNCHANGED <<prog, env, oauth, skill_check, deps, sized, user_skills, searchResult, projects, selection,
                   proposal, displayed, prompted, answer, fresh, is_biddable,
                   submitCalls, bid_result, reported>>

Tool_create_session ==
    /\ prog = "tool" /\ pc = "create_session"
    /\ IF ~env.FLN_OAUTH_TOKEN
       THEN /\ Report("FLN_OAUTH_TOKEN not found")
            /\ pc' = "exited" /\ UNCHANGED raised
       ELSE /\ Goto("check_connection") /\ UNCHANGED reported
    /\ UNCHANGED <<prog, env, oauth, skill_check, deps, sized, args, user_skills, searchResult, projects,
                   selection, proposal, displayed, prompted, answer, fresh,
                   is_biddable, submitCalls, bid_result>>

\* check_connection (try / except Exception), then `if args.list_jobs:`
\* list_job_categories (try / except Exception) and return.
Tool_check_connection ==
    /\ prog = "tool" /\ pc = "check_connection"
    /\ \/ /\ UNCHANGED reported
          /\ IF args.list_jobs THEN Goto("list_job_categories")
                               ELSE Goto("find_projects")
       \/ \E e \in Raises("get_self_user_id") :
             /\ Catches("Exception", e)
             /\ ReportError("Error connecting to Freelancer API", e)
             /\ Return
    /\ UNCHANGED <<prog, env, oauth, skill_check, deps, sized, args, user_skills, searchResult, projects,
                   selection, proposal, displayed, prompted, answer, fresh,
                   is_biddable, submitCalls, bid_result>>

Tool_list_job_categories ==
    /\ prog = "tool" /\ pc = "list_job_categories"
    /\ \/ Report("Available job categories")
       \/ \E e \in Raises("get_jobs") :
             /\ Catches("Exception", e)
             /\ ReportError("Error retrieving job categories", e)
    /\ Return
    /\ UNCHANGED <<prog, env, oauth, skill_check, deps, sized, args, user_skills, searchResult, projects,
                   selection, proposal, displayed, prompted, answer, fresh,
                   is_biddable, submitCalls, bid_result>>

\* A main that asks for the project number whether or not --place-bid was
\* given.
Tool_find_projects_then_select ==
    /\ prog = "tool" /\ pc = "find_projects"
    /\ \/ \E found \in SearchResults :
             /\ searchResult' = found
             /\ projects' = found
             /\ IF found = <<>>
                THEN /\ Report("No projects found matching the criteria.")
                     /\ Return
                ELSE /\ Report("Found projects")
                     /\ Goto("select")
       \/ \E e \in Raises("search_projects") :
             /\ UNCHANGED <<searchResult, projects>>
             /\ IF Catches("ProjectsNotFoundException", e)
                THEN /\ ReportError("Error finding projects", e)
                     /\ Return
                ELSE /\ Propagate(e) /\ UNCHANGED reported
    /\ UNCHANGED <<prog, env, oauth, skill_check, deps, sized, args, user_skills, selection,
                   proposal, displayed, prompted, answer, fresh, is_biddable,
                   submitCalls, bid_result>>

\* search_projects inside try / except ProjectsNotFoundException; every
\* project found is returned.  main returns on an empty list and, without
\* --place-bid, after the search.
Tool_find_projects ==
    /\ prog = "tool" /\ pc = "find_projects"
    /\ \/ \E found \in SearchResults :
             /\ searchResult' = found
             /\ projects' = found
             /\ IF found = <<>>
                THEN /\ Report("No projects found matching the criteria.")
                     /\ Return
                ELSE IF args.place_bid
                THEN /\ Report("Found projects")
                     /\ Goto("select")
                ELSE /\ reported' = reported \cup
                           { Msg("Found projects", ""),
                             Msg("Bid placement is disabled.", "") }
                     /\ Return
       \/ \E e \in Raises("search_projects") :
             /\ UNCHANGED <<searchResult, projects>>
             /\ IF Catches("ProjectsNotFoundException", e)
                THEN /\ ReportError("Error finding projects", e)
                     /\ Return
                ELSE /\ Propagate(e) /\ UNCHANGED reported
    /\ UNCHANGED <<prog, env, oauth, skill_check, deps, sized, args, user_skills, selection, proposal,
                   displayed, prompted, answer, fresh, is_biddable,
                   submitCalls, bid_result>>

Digits == <<"0","1","2","3","4","5","6","7","8","9">>
IsDigit(c) == \E i \in 1..Len(Digits) : Digits[i] = c
DigitValue(c) == (CHOOSE i \in 1..Len(Digits) : Digits[i] = c) - 1

\* int(s) succeeds on an optional sign followed by digits.
IsIntLiteral(s) ==
    LET body == IF Len(s) > 0 /\ s[1] = "-" THEN Tail(s) ELSE s
    IN  Len(body) > 0 /\ \A i \in 1..Len(body) : IsDigit(body[i])

RECURSIVE NatOf(_)
NatOf(s) == IF s = <<>> THEN 0
            ELSE 10 * NatOf(SubSeq(s, 1, Len(s) - 1)) + DigitValue(s[Len(s)])

\* int(s) for an s that IsIntLiteral accepts.
IntOf(s) == IF s[1] = "-" THEN 0 - NatOf(Tail(s)) ELSE NatOf(s)

\* Lines the operator can type at the project-number prompt.
SelectionInputs ==
    { <<Digits[i + 1]>> : i \in 0 .. (MaxProjects + 1) }
      \cup { <<"-", "1">>, <<"x">>, <<>>, <<"1", ".", "5">> }

\* `except ValueError` of main around the selection and place_bid.
Tool_main_except(e) ==
    IF Catches("ValueError", e)
    THEN /\ ReportError("Invalid selection. No bid will be placed.", e)
         /\ Return
    ELSE /\ Propagate(e) /\ UNCHANGED reported

\* A range check that lets the number 0 through.
Tool_select_zero_accepted ==
    /\ prog = "tool" /\ pc = "select"
    /\ \/ \E line \in SelectionInputs :
             IF ~IsIntLiteral(line)
             THEN Tool_main_except("ValueError") /\ UNCHANGED selection
             ELSE /\ selection' = Some(IntOf(line))
                  /\ IF IntOf(line) < 0 \/ IntOf(line) > Len(projects)
                     THEN Report("No bid will be placed. Exiting.") /\ Return
                     ELSE Goto("place_bid") /\ UNCHANGED reported
       \/ \E e \in Raises("input") :
             Tool_main_except(e) /\ UNCHANGED selection
    /\ UNCHANGED <<prog, env, oauth, skill_check, deps, sized, args, user_skills, searchResult,
                   projects, proposal, displayed, prompted, answer, fresh,
                   is_biddable, submitCalls, bid_result>>

\* selection = int(input(...)) and the range check.
Tool_select ==
    /\ prog = "tool" /\ pc = "select"
    /\ \/ \E line \in SelectionInputs :
             IF ~IsIntLiteral(line)
             THEN Tool_main_except("ValueError") /\ UNCHANGED selection
             ELSE /\ selection' = Some(IntOf(line))
                  /\ IF IntOf(line) <= 0 \/ IntOf(line) > Len(projects)
                     THEN Report("No bid will be placed. Exiting.") /\ Return
                     ELSE Goto("place_bid") /\ UNCHANGED reported
       \/ \E e \in Raises("input") :
             Tool_main_except(e) /\ UNCHANGED selection
    /\ UNCHANGED <<prog, env, oauth, skill_check, deps, sized, args, user_skills, searchResult, projects,
                   proposal, displayed, prompted, answer, fresh, is_biddable,
                   submitCalls, bid_result>>

\* project = projects[selection-1]; place_bid(session, project['id'])
ToolProjectId == projects[Val(selection)].id

\* A comparison that ignores the letter case of the reply.
CaseBlindAffirmative(a) == Lower(a) = Lower(Str_CONFIRM)

\* confirm != "CONFIRM" cancels.
ToolAffirmative(a) == a = Str_CONFIRM

\* place_bid up to the confirmation: the bid is printed and the operator
\* asked; anything but CONFIRM returns None.
Tool_place_bid_prompt ==
    /\ prog = "tool" /\ pc = "place_bid"
    /\ displayed' = Some([project_id |-> ToolProjectId, amount |-> BID_AMOUNT,
                          period |-> BID_PERIOD,
                          description |-> BID_DESCRIPTION])
    /\ prompted' = prompted + 1
    /\ \/ \E a \in Answers :
             /\ answer' = Some(a)
             /\ IF ToolAffirmative(a)
                THEN Goto("get_self_user_id") /\ UNCHANGED reported
                ELSE Report("Bid cancelled.") /\ Return
       \/ \E e \in Raises("input") :
             Tool_main_except(e) /\ UNCHANGED answer
    /\ UNCHANGED <<prog, env, oauth, skill_check, deps, sized, args, user_skills, searchResult, projects,
                   selection, proposal, fresh, is_biddable, submitCalls,
                   bid_result>>

\* `except BidNotPlacedException` of place_bid, then the handler of main.
Tool_place_bid_except(e) ==
    IF Catches("BidNotPlacedException", e)
    THEN /\ ReportError("Error placing bid", e)
         /\ Return
    ELSE Tool_main_except(e)

\* place_bid, get_self_user_id inside the try.
Tool_get_self_user_id ==
    /\ prog = "tool" /\ pc = "get_self_user_id"
    /\ \/ Goto("place_project_bid") /\ UNCHANGED reported
       \/ \E e \in Raises("get_self_user_id") : Tool_place_bid_except(e)
    /\ UNCHANGED <<prog, env, oauth, skill_check, deps, sized, args, user_skills, searchResult, projects,
                   selection, proposal, displayed, prompted, answer, fresh,
                   is_biddable, submitCalls, bid_result>>

\* bid_data of place_bid.
ToolBidData ==
    [project_id |-> ToolProjectId, amount |-> BID_AMOUNT,
     period |-> BID_PERIOD, description |-> BID_DESCRIPTION,
     milestone_percentage |-> 100]

\* place_bid, place_project_bid(session, **bid_data) inside the try.
Tool_place_project_bid ==
    /\ prog = "tool" /\ pc = "place_project_bid"
    /\ submitCalls' = Append(submitCalls, ToolBidData)
    /\ \/ /\ bid_result' = Some(BidPlaced(ToolBidData))
          /\ Report("Bid placed successfully!")
          /\ Return
       \/ \E e \in Raises("place_project_bid") :
             Tool_place_bid_except(e) /\ UNCHANGED bid_result
    /\ UNCHANGED <<prog, env, oauth, skill_check, deps, sized, args, user_skills, searchResult, projects,
                   selection, proposal, displayed, prompted, answer, fresh,
                   is_biddable>>

-----------------------------------------------------------------------------
(* One run of one of the two programs                                      *)

Next ==
    \/ Agent_parse_args
    \/ Agent_create_session
    \/ Agent_check_connection
    \/ Agent_get_user_skills
    \/ Agent_list_job_categories
    \/ Agent_find_projects
    \/ Agent_analyze
    \/ Agent_select_bid
    \/ Agent_generate_bid_proposal
    \/ Agent_display_bid_proposal
    \/ Agent_prompt
    \/ Agent_check_project_status
    \/ Agent_get_self_user_id
    \/ Agent_place_project_bid
    \/ Agent_display_bid_result
    \/ Tool_parse_args
    \/ Tool_create_session
    \/ Tool_check_connection
    \/ Tool_list_job_categories
    \/ Tool_find_projects
    \/ Tool_select
    \/ Tool_place_bid_prompt
    \/ Tool_get_self_user_id
    \/ Tool_place_project_bid

Spec == Init /\ [][Next]_vars

-----------------------------------------------------------------------------
(* The two eligibility checks applied to every shape of the status fields  *)

InitFilter ==
    /\ prog = "agent"
    /\ env = [FLN_OAUTH_TOKEN |-> TRUE, OPENAI_API_KEY |-> TRUE]
    /\ pc = "filter"
    /\ args = [bid |-> NoneV, simulate_bid |-> FALSE,
               list_jobs |-> FALSE, place_bid |-> FALSE]
    /\ user_skills = <<>>
    /\ \E st \in StatusRecords : searchResult = <<Project(1, st)>>
    /\ projects = <<>>
    /\ selection = NoneV
    /\ proposal = NoneV
    /\ displayed = NoneV
    /\ prompted = 0
    /\ answer = NoneV
    /\ fresh = NoneV
    /\ is_biddable = NoneV
    /\ submitCalls = <<>>
    /\ bid_result = NoneV
    /\ reported = {}
    /\ raised = NoneV
    /\ deps = NoneV
    /\ sized = NotSized
    /\ oauth = NoneV
    /\ skill_check = NoneV

\* The filter loop of find_projects on the search result.
Filter_find_projects ==
    /\ pc = "filter"
    /\ projects' = biddable_projects(searchResult)
    /\ pc' = "listed"
    /\ UNCHANGED <<prog, env, oauth, skill_check, deps, sized, args, user_skills, searchResult, selection,
                   proposal, displayed, prompted, answer, fresh, is_biddable,
                   submitCalls, bid_result, reported, raised>>

\* check_project_status on the same project, fetched with these fields.
Filter_check_project_status ==
    /\ pc = "filter"
    /\ fresh' = Some(searchResult[1])
    /\ is_biddable' = Some(check_project_status(Some(searchResult[1])))
    /\ pc' = "checked"
    /\ UNCHANGED <<prog, env, oauth, skill_check, deps, sized, args, user_skills, searchResult, projects,
                   selection, proposal, displayed, prompted, answer,
                   submitCalls, bid_result, reported, raised>>

NextFilter == Filter_find_projects \/ Filter_check_project_status

SpecFilter == InitFilter /\ [][NextFilter]_vars

-----------------------------------------------------------------------------
(* OAuth helper: get_oauth_token.py                                        *)

\* Query strings of the request the browser sends to /callback, as the
\* sequence of their key=value pairs.
Queries ==
    { <<>>,
      << <<"code", "abc">> >>,
      << <<"code", "">> >>,
      << <<"error", "access_denied">> >>,
      << <<"state", "s">>, <<"code", "abc">> >>,
      << <<"code", "abc">>, <<"code", "def">> >>,
      << <<"code", "def">>, <<"state", "">> >>,
      << <<"Code", "abc">> >>,
      << <<"code", "xyz">> >>,
      << <<"error", "">>, <<"code", "xyz">> >> }

NonBlank(pair) == pair[2] # ""
\* The values of key k among the pairs, in their order.
ValuesOf(pairs, k) ==
    LET HasKey(pair) == pair[1] = k
        sel == SelectSeq(pairs, HasKey)
    IN  [i \in 1 .. Len(sel) |-> sel[i][2]]

\* urllib.parse.parse_qs: a dict from each key to the list of its values;
\* pairs with a blank value are left out.
parse_qs(query) ==
    LET kept == SelectSeq(query, NonBlank)
    IN  [k \in {kept[i][1] : i \in 1 .. Len(kept)} |-> ValuesOf(kept, k)]

\* Answers of the token endpoint: a status code and, for 200, a JSON body.
Tokens == {"token A", "token B"}
TokenData ==
    {[access_token |-> t] : t \in Tokens}
    \cup {[access_token |-> t, refresh_token |-> "refresh"] : t \in Tokens}
    \cup {[error |-> "invalid_grant"]}
TokenResponses ==
    [status_code : {200}, json : TokenData]
    \cup [status_code : {400, 401, 403, 500}, json : {EmptyDict}]

\* The server is waiting in handle_request; .env exists already or not.
InitOAuth ==
    /\ prog = "get_oauth_token"
    /\ env = [FLN_OAUTH_TOKEN |-> FALSE, OPENAI_API_KEY |-> FALSE]
    /\ pc = "handle_request"
    /\ args = [bid |-> NoneV, simulate_bid |-> FALSE,
               list_jobs |-> FALSE, place_bid |-> FALSE]
    /\ user_skills = <<>>
    /\ searchResult = <<>>
    /\ projects = <<>>
    /\ selection = NoneV
    /\ proposal = NoneV
    /\ displayed = NoneV
    /\ prompted = 0
    /\ answer = NoneV
    /\ fresh = NoneV
    /\ is_biddable = NoneV
    /\ submitCalls = <<>>
    /\ bid_result = NoneV
    /\ reported = {}
    /\ raised = NoneV
    /\ deps = NoneV
    /\ sized = NotSized
    /\ skill_check = NoneV
    /\ \E old \in {NoneV, Some("old token")} :
          oauth = [query |-> NoneV, auth_code |-> NoneV, response |-> NoneV,
                   posts |-> 0, env_file |-> old, replies |-> <<>>,
                   handled |-> 0]

\* A do_GET that asks the token endpoint whether or not a code came.
OAuth_do_GET_always_exchanges ==
    /\ prog = "get_oauth_token" /\ pc = "handle_request"
    /\ \E query \in Queries :
          /\ oauth' = [oauth EXCEPT !.query = Some(query),
                                    !.handled = @ + 1]
          /\ Goto("requests.post")
    /\ UNCHANGED <<prog, env, skill_check, deps, sized, args, user_skills,
                   searchResult, projects, selection, proposal, displayed,
                   prompted, answer, fresh, is_biddable, submitCalls,
                   bid_result, reported>>

\* handle_request takes one request; do_GET up to the token exchange:
\* without a code parameter it replies 400.
OAuth_do_GET ==
    /\ prog = "get_oauth_token" /\ pc = "handle_request"
    /\ \E query \in Queries :
          LET params == parse_qs(query)
          IN  IF "code" \in DOMAIN params
              THEN /\ oauth' = [oauth EXCEPT !.query = Some(query),
                                             !.auth_code = Some(params["code"][1]),
                                             !.handled = @ + 1]
                   /\ Goto("requests.post")
              ELSE /\ oauth' = [oauth EXCEPT !.query = Some(query),
                                             !.replies = Append(@, 400),
                                             !.handled = @ + 1]
                   /\ Return
    /\ UNCHANGED <<prog, env, skill_check, deps, sized, args, user_skills,
                   searchResult, projects, selection, proposal, displayed,
                   prompted, answer, fresh, is_biddable, submitCalls,
                   bid_result, reported>>

\* do_GET from requests.post on: 200 writes .env and replies 200, another
\* status replies 500.  An exception (of the request, or KeyError for a
\* body without access_token) leaves do_GET; the server prints it and
\* handle_request returns, no reply sent.
OAuth_token_exchange ==
    /\ prog = "get_oauth_token" /\ pc = "requests.post"
    /\ \/ \E response \in TokenResponses :
             IF response.status_code = 200
             THEN IF "access_token" \in DOMAIN response.json
                  THEN /\ oauth' = [oauth EXCEPT
                              !.response = Some(response),
                              !.posts = @ + 1,
                              !.env_file = Some(response.json.access_token),
                              !.replies = Append(@, 200)]
                       /\ Return
                  ELSE /\ oauth' = [oauth EXCEPT !.response = Some(response),
                                                 !.posts = @ + 1]
                       /\ Propagate("KeyError")
             ELSE /\ oauth' = [oauth EXCEPT !.response = Some(response),
                                            !.posts = @ + 1,
                                            !.replies = Append(@, 500)]
                  /\ Return
       \/ \E e \in Raises("requests.post") :
             /\ oauth' = [oauth EXCEPT !.posts = @ + 1]
             /\ Propagate(e)
    /\ UNCHANGED <<prog, env, skill_check, deps, sized, args, user_skills,
                   searchResult, projects, selection, proposal, displayed,
                   prompted, answer, fresh, is_biddable, submitCalls,
                   bid_result, reported>>

NextOAuth == OAuth_do_GET \/ OAuth_token_exchange

SpecOAuth == InitOAuth /\ [][NextOAuth]_vars

-----------------------------------------------------------------------------
(* check_skill_match, a tool of the analysis agent, applied to sample      *)
(* skill lists                                                             *)

MaxSkills == 3            \* longest list of skills

\* str.strip(): leading and trailing blanks removed.
RECURSIVE StripLeft(_)
StripLeft(str) ==
    IF str # <<>> /\ Head(str) = " " THEN StripLeft(Tail(str)) ELSE str
RECURSIVE StripRight(_)
StripRight(str) ==
    IF str # <<>> /\ str[Len(str)] = " "
    THEN StripRight(SubSeq(str, 1, Len(str) - 1))
    ELSE str
Strip(str) == StripRight(StripLeft(str))

\* s.lower().strip()
Normalize(str) == Strip(Lower(str))
\* [s.lower().strip() for s in skills]
NormalizeAll(skills) == [i \in 1 .. Len(skills) |-> Normalize(skills[i])]

\* Sample skill names.
SkillNames == { <<"g","o">>, <<" ","G","o"," ">>, <<"s","q","l">>, <<"R">> }
SkillLists == SeqsUpTo(SkillNames, MaxSkills)

\* A match that needs more than half of the project's skills.
check_skill_match_above_half(user_skills_arg, project_skills) ==
    IF user_skills_arg = <<>>
    THEN [match |-> FALSE, reason |-> "No user skills available"]
    ELSE LET user_skills_norm == NormalizeAll(user_skills_arg)
             project_skills_norm == NormalizeAll(project_skills)
             Known(sk) == \E i \in 1 .. Len(user_skills_norm) :
                             user_skills_norm[i] = sk
             Unknown(sk) == ~Known(sk)
             matching_skills == SelectSeq(project_skills_norm, Known)
             match_percentage ==
                 IF project_skills_norm # <<>>
                 THEN Frac(100 * Len(matching_skills), Len(project_skills_norm))
                 ELSE Frac(0, 1)
         IN  [match |-> match_percentage[1] > 50 * match_percentage[2],
              match_percentage |-> match_percentage,
              matching_skills |-> matching_skills,
              missing_skills |-> SelectSeq(project_skills_norm, Unknown)]

\* check_skill_match(ctx, project_skills), ctx.deps.user_skills being
\* user_skills_arg; match_percentage is an exact fraction.
check_skill_match(user_skills_arg, project_skills) ==
    IF user_skills_arg = <<>>
    THEN [match |-> FALSE, reason |-> "No user skills available"]
    ELSE LET user_skills_norm == NormalizeAll(user_skills_arg)
             project_skills_norm == NormalizeAll(project_skills)
             Known(sk) == \E i \in 1 .. Len(user_skills_norm) :
                             user_skills_norm[i] = sk
             Unknown(sk) == ~Known(sk)
             matching_skills == SelectSeq(project_skills_norm, Known)
             match_percentage ==
                 IF project_skills_norm # <<>>
                 THEN Frac(100 * Len(matching_skills), Len(project_skills_norm))
                 ELSE Frac(0, 1)
         IN  [match |-> match_percentage[1] >= 50 * match_percentage[2],
              match_percentage |-> match_percentage,
              matching_skills |-> matching_skills,
              missing_skills |-> SelectSeq(project_skills_norm, Unknown)]

InitSkills ==
    /\ prog = "agent"
    /\ env = [FLN_OAUTH_TOKEN |-> TRUE, OPENAI_API_KEY |-> TRUE]
    /\ pc = "check_skill_match"
    /\ args = [bid |-> NoneV, simulate_bid |-> FALSE,
               list_jobs |-> FALSE, place_bid |-> FALSE]
    /\ user_skills = <<>>
    /\ searchResult = <<>>
    /\ projects = <<>>
    /\ selection = NoneV
    /\ proposal = NoneV
    /\ displayed = NoneV
    /\ prompted = 0
    /\ answer = NoneV
    /\ fresh = NoneV
    /\ is_biddable = NoneV
    /\ submitCalls = <<>>
    /\ bid_result = NoneV
    /\ reported = {}
    /\ raised = NoneV
    /\ deps = NoneV
    /\ sized = NotSized
    /\ oauth = NoneV
    /\ \E us \in SkillLists, ps \in SkillLists :
          skill_check = [user_skills |-> us, project_skills |-> ps,
                         result |-> NoneV]

\* The language model calls the tool check_skill_match.
Skills_check_skill_match ==
    /\ pc = "check_skill_match" /\ IsNone(skill_check.result)
    /\ skill_check' =
          [skill_check EXCEPT !.result =
              Some(check_skill_match(skill_check.user_skills,
                                     skill_check.project_skills))]
    /\ UNCHANGED <<prog, env, oauth, deps, sized, pc, args, user_skills,
                   searchResult, projects, selection, proposal, displayed,
                   prompted, answer, fresh, is_biddable, submitCalls,
                   bid_result, reported, raised>>

NextSkills == Skills_check_skill_match

SpecSkills == InitSkills /\ [][NextSkills]_vars

-----------------------------------------------------------------------------
(* Workflow states of a run                                                *)

Answered == ~IsNone(answer)

\* Replies that are a yes: y in either letter case for the bidder agent,
\* CONFIRM for the search tool.
YesReplies == IF prog = "agent" THEN {<<"y">>, <<"Y">>}
                                ELSE {<<"C","O","N","F","I","R","M">>}

\* The configured affirmative token of each program.
ConfiguredToken == IF prog = "agent" THEN <<"y">>
                                     ELSE <<"C","O","N","F","I","R","M">>

NoSubmitCall == submitCalls = <<>>

\* The run ended at the confirmation prompt: main returned without entering
\* the submit step (agent) / place_bid printed "Bid cancelled." (tool).
Cancelled ==
    /\ pc = "done" /\ Answered /\ NoSubmitCall
    /\ IsNone(bid_result) /\ IsNone(raised)
    /\ IF prog = "agent" THEN IsNone(is_biddable)
                         ELSE Msg("Bid cancelled.", "") \in reported

\* The run ended because the re-check found the project not biddable.
FailedNotBiddable ==
    /\ pc = "done" /\ IsNone(bid_result) /\ IsNone(raised)
    /\ Msg("This project is not available for bidding.", "") \in reported

-----------------------------------------------------------------------------
(* Properties                                                              *)

\* C1: place_project_bid is called only after the operator answered the
\* confirmation prompt with a yes, and a run whose operator answered
\* anything else has made no submit call and has ended in Cancelled.
C1_SubmitOnlyAfterYes ==
    /\ ~NoSubmitCall => prompted = 1 /\ Answered /\ Val(answer) \in YesReplies
    /\ Answered /\ Val(answer) \notin YesReplies => NoSubmitCall /\ Cancelled

C1_Witness ==
    /\ prog = "agent" /\ pc = "done"
    /\ Answered /\ Val(answer) = <<"n">> /\ ~IsNone(displayed)

\* C2 as stated: every reply other than the exact configured token ("y" for
\* the bidder agent, "CONFIRM" for the search tool) ends in Cancelled with
\* no submission.
C2_ExactTokenOnly ==
    Answered /\ Val(answer) # ConfiguredToken => Cancelled /\ NoSubmitCall

\* C2 amended: the bidder agent takes a reply for a yes iff its lowercased
\* form is "y" (so "y" and "Y"), the search tool iff it is exactly
\* "CONFIRM"; every other reply ends in Cancelled with no submission, and a
\* yes never does.
C2_YesIffToken ==
    Answered =>
        /\ Val(answer) \notin YesReplies => Cancelled /\ NoSubmitCall
        /\ Val(answer) \in YesReplies => ~Cancelled

C2_Witness ==
    /\ prog = "agent" /\ Answered /\ Val(answer) = <<"Y">> /\ ~NoSubmitCall

C4_SimulateNeverSubmits ==
    prog = "agent" /\ args.simulate_bid => NoSubmitCall

\* The eligibility rule as the specification states it.
SpecPresent(v) == v # Absent
SpecActive == {"active", "open", "published"}
SpecBiddable(p) ==
    \/ SpecPresent(p.status) /\ p.status \in SpecActive
    \/ SpecPresent(p.frontend_status) /\ p.frontend_status \in SpecActive
    \/ ~SpecPresent(p.status) /\ ~SpecPresent(p.frontend_status)
                              /\ ~SpecPresent(p.sub_status)

\* C5: find_projects keeps a project iff status is present and active, or
\* frontend_status is present and active, or all three fields are absent;
\* all-absent is kept, status "closed" with nothing overriding is dropped,
\* status absent with frontend_status "open" is kept.
C5_ListingFilter ==
    pc = "listed" =>
        LET p == searchResult[1] IN
        /\ projects = (IF SpecBiddable(p) THEN <<p>> ELSE <<>>)
        /\ p.status = Absent /\ p.frontend_status = Absent
              /\ p.sub_status = Absent => projects = <<p>>
        /\ p.status = "closed" /\ p.frontend_status \notin SpecActive
              => projects = <<>>
        /\ p.status = Absent /\ p.frontend_status = "open" => projects = <<p>>

C5_Witness ==
    /\ pc = "listed" /\ projects = <<>>
    /\ searchResult[1].status = Absent
    /\ searchResult[1].frontend_status = Absent
    /\ searchResult[1].sub_status = "closed"

\* C6: check_project_status returns true for a fetched project iff the
\* listing filter of find_projects keeps a project with the same fields.
C6_SameFilter ==
    pc = "checked" => Val(is_biddable) = ListingKeeps(Val(fresh))

\* C7: a run calls place_project_bid at most once, also after a failed or
\* rejected submission.
C7_AtMostOneSubmit == Len(submitCalls) <= 1

C7_Witness ==
    /\ pc = "done" /\ Len(submitCalls) = 1 /\ IsNone(bid_result)
    /\ \E e \in Raises("place_project_bid") :
          Msg("Error submitting bid", e) \in reported

\* C8: no exception raised while fetching the bidder id or placing the bid
\* leaves the submit operation: none leaves main, and none reaches the
\* ValueError handler of the tool's main.
C8_SubmitFaultsContained ==
    /\ pc = "raised" =>
          Val(raised).at \notin {"get_self_user_id", "place_project_bid"}
    /\ Answered =>
          \A e \in Exceptions :
             Msg("Invalid selection. No bid will be placed.", e) \notin reported

\* The composer failed: no proposal at the end of a run that reached
\* generate_bid_proposal.
ComposerFailed ==
    /\ prog = "agent" /\ IsNone(proposal)
    /\ \/ Msg("OPENAI_API_KEY environment variable not set.", "") \in reported
       \/ Msg("Generating bid proposal with AI...", "") \in reported

\* C9: when the composer fails the run ends as failed with the composer
\* reported unavailable, the operator is not prompted and no bid is placed.
C9_ComposerFailureFails ==
    ComposerFailed =>
        /\ pc = "done" /\ IsNone(raised)
        /\ prompted = 0 /\ NoSubmitCall

\* C10: in the bidder agent no exception of the search, job-category,
\* user-skill or proposal-composition step leaves main.
C10_NoUnhandledFault ==
    prog = "agent" /\ pc = "raised" =>
        Val(raised).at \notin {"find_projects", "list_job_categories",
                               "get_user_skills", "generate_bid_proposal"}

\* The bidder agent is composing, or has composed, a proposal: main has
\* called generate_bid_proposal.
ComposerCalled ==
    /\ prog = "agent"
    /\ \/ pc = "generate_bid_proposal"
       \/ ~IsNone(proposal)
       \/ ~IsNone(raised) /\ Val(raised).at = "generate_bid_proposal"
       \/ Msg("OPENAI_API_KEY environment variable not set.", "") \in reported

\* The search returned projects and the eligibility rule rejects them all.
AllIneligible ==
    /\ searchResult # <<>>
    /\ \A i \in 1 .. Len(searchResult) : ~SpecBiddable(searchResult[i])

\* C11: the project the bidder agent hands to generate_bid_proposal is an
\* element of the list find_projects returned, that list holds only search
\* results that pass the eligibility rule, and a run whose search results
\* are all ineligible ends without composing a proposal, prompting or
\* submitting.
C11_ComposeOnlyEligible ==
    /\ ComposerCalled =>
          /\ ~IsNone(args.bid) /\ Val(args.bid) \in 1 .. Len(projects)
          /\ SpecBiddable(projects[Val(args.bid)])
          /\ \E i \in 1 .. Len(searchResult) :
                searchResult[i] = projects[Val(args.bid)]
    /\ (prog = "agent" /\ AllIneligible) =>
          /\ pc = "done" /\ projects = <<>>
          /\ ~ComposerCalled /\ prompted = 0 /\ NoSubmitCall

\* A proposal was composed for the second search result because the filter
\* dropped the first one.
C11_Witness ==
    /\ prog = "agent" /\ ~IsNone(proposal)
    /\ Len(searchResult) > Len(projects)
    /\ ~SpecBiddable(searchResult[1])
    /\ projects[Val(args.bid)] = searchResult[2]

\* C12: every bid handed to place_project_bid has a positive amount, a
\* positive period, a non-empty description and a milestone percentage in
\* 0..100, whatever the composer returned.
C12_SubmittedProposalValid ==
    \A i \in 1 .. Len(submitCalls) :
        /\ submitCalls[i].amount > 0
        /\ submitCalls[i].period > 0
        /\ submitCalls[i].description # ""
        /\ submitCalls[i].milestone_percentage \in 0 .. 100

\* main called submit_bid: the operator confirmed and the status re-check,
\* the first step of submit_bid, has returned.
SubmitBidCalled == prog = "agent" /\ ~IsNone(is_biddable)

\* C13: a run of the bidder agent that called submit_bid ends with the
\* outcome of the attempt printed by display_bid_result.
C13_EveryAttemptReported ==
    (SubmitBidCalled /\ pc = "done") =>
        Msg("BID SUBMISSION RESULT", "") \in reported

\* No collaborator beyond argument parsing has been used: no search, no
\* project fetch, no composer call, no prompt, no bid.
NothingStarted ==
    /\ user_skills = <<>> /\ searchResult = <<>> /\ projects = <<>>
    /\ IsNone(selection) /\ IsNone(proposal) /\ IsNone(displayed)
    /\ prompted = 0 /\ IsNone(fresh) /\ IsNone(is_biddable)
    /\ NoSubmitCall /\ IsNone(bid_result) /\ IsNone(raised)

\* C14: without FLN_OAUTH_TOKEN a run of either program never gets past
\* create_session: it is parsing its arguments, about to create the
\* session, or has exited there with a non-zero status, and nothing of the
\* workflow has started.
C14_MissingTokenExits ==
    ~env.FLN_OAUTH_TOKEN =>
        /\ pc \in {"parse_args", "create_session", "exited"}
        /\ NothingStarted
        /\ pc = "exited" =>
              /\ ExitStatus # NoneV /\ Val(ExitStatus) # 0
              /\ reported = {Msg("FLN_OAUTH_TOKEN not found", "")}

\* A run without the token has exited in create_session.
C14_Witness ==
    /\ ~env.FLN_OAUTH_TOKEN /\ pc = "exited" /\ prog = "agent"
    /\ Val(ExitStatus) = 1

-----------------------------------------------------------------------------
(* Properties of the sizing tools                                          *)

AmountSized == ~IsNone(sized.amount)
PeriodSized == ~IsNone(sized.period)

SpecBudget == Get(deps.project, "budget", EmptyDict)
\* The budget has a minimum / a maximum: the key is there with a number.
HasMinimum == "minimum" \in DOMAIN SpecBudget /\ SpecBudget.minimum # NoneV
HasMaximum == "maximum" \in DOMAIN SpecBudget /\ SpecBudget.maximum # NoneV
\* The budget has a maximum key whose value is None.
NullMaximum == "maximum" \in DOMAIN SpecBudget /\ SpecBudget.maximum = NoneV

NoOverride == IsNone(deps.typical_bid_amount)
NoHistory == IsNone(deps.bid_history) \/ Val(deps.bid_history) = <<>>

\* The amount returned for a given base when there is no override: the
\* base blended with the mean of past_bids, or the base alone when
\* past_bids is empty, rounded.
AmountFromBase(base) ==
    LET past == IF NoHistory THEN <<>> ELSE past_bids(Val(deps.bid_history))
    IN  IF past = <<>> THEN Round2(base)
        ELSE Round2(Half(Plus(base, Frac(Sum(past), Len(past)))))

\* C15: with no override and no bid history, a budget that has both a
\* minimum and a maximum gives the midpoint (minimum + maximum) / 2, that
\* is 50 * (minimum + maximum) hundredths; budget (100, 200) gives 150.00.
C15_MidpointOfBudget ==
    (AmountSized /\ NoOverride /\ NoHistory /\ HasMinimum /\ HasMaximum) =>
        Val(sized.amount) = 50 * (Val(SpecBudget.minimum) + Val(SpecBudget.maximum))

C15_Witness ==
    /\ AmountSized /\ NoOverride /\ NoHistory
    /\ HasMinimum /\ Val(SpecBudget.minimum) = 100
    /\ HasMaximum /\ Val(SpecBudget.maximum) = 200
    /\ Val(sized.amount) = 15000

\* C16 as stated: with no override, a budget that lacks its minimum or its
\* maximum (or is absent) gives the amount computed from the base 500.
C16_FallbackWithoutBoth ==
    (AmountSized /\ NoOverride /\ ~(HasMinimum /\ HasMaximum)) =>
        Val(sized.amount) = AmountFromBase(Frac(500, 1))

\* C16: with no override, the base is 500 when the budget has no minimum
\* (budget absent, minimum missing or None) or has a maximum that is None;
\* a budget with a minimum and no maximum key has the minimum as its base.
C16_FallbackOrMinimum ==
    (AmountSized /\ NoOverride /\ ~(HasMinimum /\ HasMaximum)) =>
        Val(sized.amount) =
            IF HasMinimum /\ ~NullMaximum
            THEN AmountFromBase(Frac(Val(SpecBudget.minimum), 1))
            ELSE AmountFromBase(Frac(500, 1))

\* The budget has only a minimum, and the amount is that minimum.
C16_Witness ==
    /\ AmountSized /\ NoOverride /\ NoHistory
    /\ HasMinimum /\ "maximum" \notin DOMAIN SpecBudget
    /\ Val(SpecBudget.minimum) = 100
    /\ Val(sized.amount) = 10000

\* Amounts of the history entries that have one, an amount of 0 included.
RECURSIVE SpecAmounts(_)
SpecAmounts(h) ==
    IF h = <<>> THEN <<>>
    ELSE IF "amount" \in DOMAIN Head(h) /\ Head(h).amount # NoneV
         THEN <<Val(Head(h).amount)>> \o SpecAmounts(Tail(h))
         ELSE SpecAmounts(Tail(h))

\* C17: with no override and a non-empty history the amount is
\* (base + avg_past) / 2, avg_past the mean over every entry that has an
\* amount, an amount of 0 included, and the base when no entry has one.
C17_BlendWithHistory ==
    (AmountSized /\ NoOverride /\ ~NoHistory) =>
        LET amounts == SpecAmounts(Val(deps.bid_history))
            base == BaseAmount(deps.project)
        IN  Val(sized.amount) =
               IF amounts = <<>> THEN Round2(base)
               ELSE Round2(Half(Plus(base, Frac(Sum(amounts), Len(amounts)))))

\* C18: an override that is supplied, whatever its value, is the amount
\* returned.
C18_OverrideReturned ==
    (AmountSized /\ ~NoOverride) =>
        Val(sized.amount) = 100 * Val(deps.typical_bid_amount)

\* The description, in any letter case, has the word at some position.
HasWord(word) ==
    LET text == Get(deps.project, "description", <<>>)
    IN  \E i \in 1 .. Len(text) :
           /\ i + Len(word) - 1 <= Len(text)
           /\ \A j \in 1 .. Len(word) : LowerChar(text[i + j - 1]) = word[j]
HasUrgency == HasWord(Str_urgent) \/ HasWord(Str_asap) \/ HasWord(Str_immediately)
HasComplexity ==
    HasWord(Str_complex) \/ HasWord(Str_extensive) \/ HasWord(Str_comprehensive)

\* C19: estimate_completion_time gives 3 for a description with an urgency
\* word, otherwise 14 for one with a complexity word, otherwise 7 (also
\* without a description); with words of both kinds, in any letter case,
\* it gives 3.
C19_PeriodByKeyword ==
    PeriodSized =>
        /\ HasUrgency => Val(sized.period) = 3
        /\ (~HasUrgency /\ HasComplexity) => Val(sized.period) = 14
        /\ (~HasUrgency /\ ~HasComplexity) => Val(sized.period) = 7
        /\ "description" \notin DOMAIN deps.project => Val(sized.period) = 7

\* A description with EXTENSIVE before Asap got 3 days.
C19_Witness ==
    /\ PeriodSized /\ Val(sized.period) = 3
    /\ "description" \in DOMAIN deps.project
    /\ deps.project.description = EXTENSIVE \o Space \o Asap

-----------------------------------------------------------------------------
(* Properties of the order of the workflow                                 *)

\* The states a run has passed through, read from what it has recorded.
PassedListed == projects # <<>> /\ projects = biddable_projects(searchResult)
PassedEligible ==
    /\ ~IsNone(args.bid) /\ Val(args.bid) \in 1 .. Len(projects)
    /\ SpecBiddable(projects[Val(args.bid)])
PassedProposed == ~IsNone(proposal)
PassedAwaitingConfirmation ==
    displayed = proposal /\ prompted = 1 /\ Answered /\ Val(answer) \in YesReplies
\* The sizing tools were run on the selected project and the proposal
\* carries their amount and period.
PassedSized ==
    /\ deps = DepsOf(projects[Val(args.bid)])
    /\ AmountSized /\ PeriodSized /\ ~IsNone(proposal)
    /\ 100 * Val(proposal).bid_amount = Val(sized.amount)
    /\ Val(proposal).period = Val(sized.period)

\* C21: a run of the bidder agent that has entered submit_bid has passed
\* through Listed, Eligible, Sized, Proposed and AwaitingConfirmation: the
\* sizing tools were run for the selected project and the proposal has the
\* amount and the period they computed.
C21_SizedBeforeProposed ==
    SubmitBidCalled =>
        /\ PassedListed /\ PassedEligible /\ PassedProposed
        /\ PassedAwaitingConfirmation
        /\ PassedSized

\* C22: what the bidder agent passes to place_project_bid is what it
\* displayed before the confirmation prompt, field by field, and it does
\* so at most once.
C22_SubmittedIsDisplayed ==
    (prog = "agent" /\ ~NoSubmitCall) =>
        /\ Len(submitCalls) = 1
        /\ ~IsNone(displayed)
        /\ submitCalls[1].project_id = Val(displayed).project_id
        /\ submitCalls[1].amount = Val(displayed).bid_amount
        /\ submitCalls[1].period = Val(displayed).period
        /\ submitCalls[1].description = Val(displayed).description
        /\ submitCalls[1].milestone_percentage = Val(displayed).milestone_percentage

\* A bid with a period of 0 days was displayed and then submitted.
C22_Witness ==
    /\ prog = "agent" /\ ~NoSubmitCall /\ ~IsNone(displayed)
    /\ Val(displayed).period = 0 /\ submitCalls[1].period = 0

\* C23: a run of the search tool without --place-bid reaches neither the
\* project-number input, nor the confirmation prompt, nor
\* place_project_bid, whatever the search returns.
C23_NoBidByDefault ==
    (prog = "tool" /\ ~args.place_bid) =>
        /\ pc \notin {"select", "place_bid", "get_self_user_id",
                      "place_project_bid"}
        /\ IsNone(selection) /\ IsNone(displayed)
        /\ prompted = 0 /\ NoSubmitCall

\* The search found projects and the run ended saying bidding is disabled.
C23_Witness ==
    /\ prog = "tool" /\ ~args.place_bid /\ pc = "done"
    /\ Len(searchResult) = MaxProjects
    /\ Msg("Bid placement is disabled.", "") \in reported

NoMatchesReported(r) ==
    \/ Msg("No projects found matching the criteria.", "") \in r
    \/ Msg("Error finding projects", "ProjectsNotFoundException") \in r

\* C24: the find_projects step never lets ProjectsNotFoundException out,
\* and when the search gave no projects (an empty result or that
\* exception) it reports this, returns the empty list and the run ends
\* there, with no proposal composed and no bid submitted.
C24_NoMatchesEndsRun ==
    [][ (pc = "find_projects" /\ pc' # "find_projects") =>
          /\ pc' = "raised" =>
                Val(raised').exc # "ProjectsNotFoundException"
          /\ (pc' # "raised" /\ searchResult' = <<>>) =>
                /\ pc' = "done" /\ projects' = <<>>
                /\ NoMatchesReported(reported')
                /\ IsNone(proposal') /\ prompted' = 0 /\ submitCalls' = <<>>
      ]_vars

\* The search of the bidder agent raised ProjectsNotFoundException and the
\* run ended normally.
C24_Witness ==
    /\ prog = "agent" /\ pc = "done" /\ IsNone(raised)
    /\ Msg("Error finding projects", "ProjectsNotFoundException") \in reported
    /\ projects = <<>>

\* Terminal states of the workflow of the bidder agent.
Ineligible ==
    /\ pc = "done" /\ AllIneligible
    /\ Msg("No biddable projects found matching the criteria.", "") \in reported
Submitted == pc = "done" /\ ~IsNone(bid_result) /\ Len(submitCalls) = 1
Failed ==
    /\ pc = "done" /\ IsNone(bid_result) /\ IsNone(raised)
    /\ \/ Msg("OPENAI_API_KEY environment variable not set.", "") \in reported
       \/ Msg("This project is not available for bidding.", "") \in reported
       \/ \E e \in Exceptions : Msg("Error submitting bid", e) \in reported

\* C25: a run of the bidder agent that found only ineligible projects, or
\* that called the composer, and has ended, has ended in Ineligible,
\* Cancelled, Failed or Submitted; and the bidder agent waits for input at
\* the confirmation prompt only, at most once.
C25_EndsInTerminalState ==
    prog = "agent" =>
        /\ ((AllIneligible \/ ComposerCalled) /\ Terminal) =>
              Ineligible \/ Cancelled \/ Failed \/ Submitted
        /\ IsNone(selection) /\ prompted <= 1

\* C26: the project the bidder agent re-checks and bids on is the one the
\* --bid index selected from the filtered list.
C26_BidOnSelectedProject ==
    prog = "agent" =>
        /\ ~IsNone(fresh) => Val(fresh).id = projects[Val(args.bid)].id
        /\ \A i \in 1 .. Len(submitCalls) :
              submitCalls[i].project_id = projects[Val(args.bid)].id

\* C27: when the fresh fetch of check_project_status raised or returned no
\* project, the check returned false and the bidder agent places no bid.
C27_RecheckFailsClosed ==
    (prog = "agent" /\ ~IsNone(is_biddable) /\ IsNone(fresh)) =>
        /\ Val(is_biddable) = FALSE
        /\ pc \in {"display_bid_result", "done"}
        /\ NoSubmitCall /\ IsNone(bid_result)
        /\ Msg("This project is not available for bidding.", "") \in reported

\* The fetch raised, and the run ended without a bid.
C27_Witness ==
    /\ prog = "agent" /\ pc = "done" /\ IsNone(fresh) /\ NoSubmitCall
    /\ is_biddable = Some(FALSE)
    /\ \E e \in Raises("get_project_by_id") :
          Msg("Error checking project status", e) \in reported

\* The run has gone past the selection towards a bid.
TowardsBid ==
    \/ prompted > 0 \/ ~NoSubmitCall \/ ~IsNone(displayed)
    \/ pc \in {"generate_bid_proposal", "display_bid_proposal", "prompt",
               "check_project_status", "place_bid", "get_self_user_id",
               "place_project_bid", "display_bid_result"}

\* C28: a run goes towards a bid only with an index in 1..len(projects).
\* The bidder agent with a --bid outside that range has composed no
\* proposal; the search tool whose operator typed a number outside that
\* range, or something that is not an integer, has ended before the
\* confirmation prompt.
C28_OutOfRangeNeverBids ==
    /\ prog = "agent" =>
          /\ (TowardsBid \/ ComposerCalled) =>
                ~IsNone(args.bid) /\ Val(args.bid) \in 1 .. Len(projects)
          /\ (~IsNone(args.bid) /\ Val(args.bid) \notin 1 .. Len(projects)) =>
                IsNone(proposal) /\ ~ComposerCalled /\ NoSubmitCall
    /\ prog = "tool" =>
          /\ TowardsBid =>
                ~IsNone(selection) /\ Val(selection) \in 1 .. Len(projects)
          /\ (~IsNone(selection) /\ Val(selection) \notin 1 .. Len(projects)) =>
                pc = "done" /\ prompted = 0 /\ NoSubmitCall
          /\ (IsNone(selection) /\
              Msg("Invalid selection. No bid will be placed.", "ValueError")
                  \in reported) =>
                pc = "done" /\ prompted = 0 /\ NoSubmitCall

\* The operator of the search tool typed a number above the number of
\* projects and the run ended without a prompt.
C28_Witness ==
    /\ prog = "tool" /\ pc = "done" /\ ~IsNone(selection)
    /\ projects # <<>> /\ Val(selection) > Len(projects)
    /\ prompted = 0 /\ NoSubmitCall

-----------------------------------------------------------------------------
(* Properties of the OAuth helper                                          *)

\* The request carries a code parameter: a pair code=v with v not blank.
CarriesCode ==
    /\ ~IsNone(oauth.query)
    /\ \E i \in 1 .. Len(Val(oauth.query)) :
          Val(oauth.query)[i][1] = "code" /\ Val(oauth.query)[i][2] # ""
ExchangeAnswered == ~IsNone(oauth.response)

-----------------------------------------------------------------------------
(* Properties of check_skill_match                                         *)

SkillsChecked == ~IsNone(skill_check) /\ ~IsNone(skill_check.result)
SkillResult == Val(skill_check.result)
UserNorm == {Normalize(skill_check.user_skills[i]) :
                i \in 1 .. Len(skill_check.user_skills)}
ProjNorm == NormalizeAll(skill_check.project_skills)
\* Number of project skills that are among the user's.
MatchedCount == Cardinality({i \in 1 .. Len(ProjNorm) : ProjNorm[i] \in UserNorm})
Count(seq, x) == Cardinality({i \in 1 .. Len(seq) : seq[i] = x})

\* match is true iff the user has a skill and at least half of the
\* project's skills are among the user's.
MatchIsHalf ==
    SkillResult.match <=>
        /\ skill_check.user_skills # <<>> /\ ProjNorm # <<>>
        /\ 2 * MatchedCount >= Len(ProjNorm)
\* With no project skills match is false and the percentage is 0.
EmptyProjectIsZero ==
    ProjNorm = <<>> =>
        /\ ~SkillResult.match
        /\ "match_percentage" \in DOMAIN SkillResult
        /\ SkillResult.match_percentage[1] = 0
\* matching_skills and missing_skills split the normalized project skills:
\* each occurrence is in exactly one of them, the matching ones being those
\* the user has.
ListsPartition ==
    /\ {"matching_skills", "missing_skills"} \subseteq DOMAIN SkillResult
    /\ \A i \in 1 .. Len(ProjNorm) :
          LET x == ProjNorm[i]
          IN  /\ Count(SkillResult.matching_skills, x)
                   + Count(SkillResult.missing_skills, x) = Count(ProjNorm, x)
              /\ Count(SkillResult.matching_skills, x) > 0 <=> x \in UserNorm
    /\ Len(SkillResult.matching_skills) + Len(SkillResult.missing_skills)
           = Len(ProjNorm)

\* C30 as stated: the three properties hold of every result.
C30_SkillMatchAlways ==
    SkillsChecked => MatchIsHalf /\ EmptyProjectIsZero /\ ListsPartition

\* C30: for a user with at least one skill the three properties hold; for
\* a user without skills the result is match = false with a reason, and
\* has no percentage and no skill lists.
C30_SkillMatch ==
    SkillsChecked =>
        IF skill_check.user_skills # <<>>
        THEN MatchIsHalf /\ EmptyProjectIsZero /\ ListsPartition
        ELSE /\ ~SkillResult.match
             /\ DOMAIN SkillResult = {"match", "reason"}

\* One of two project skills is among the user's, written differently,
\* and match is true.
C30_Witness ==
    /\ SkillsChecked /\ SkillResult.match
    /\ skill_check.user_skills = << <<" ","G","o"," ">> >>
    /\ skill_check.project_skills = << <<"s","q","l">>, <<"g","o">> >>
    /\ SkillResult.missing_skills = << <<"s","q","l">> >>

====
